---- MODULE Spec2Model ----
(***************************************************************************)
(* Model of wayback_downloader.py / wayback_gather.py: the filename        *)
(* deriver, the archive lookup, the download loop, the status recorder     *)
(* and the retry runner.  Strings are sequences of one-character strings,  *)
(* indexed from 0 as in Python.                                            *)
(*                                                                         *)
(* A behaviour is a session in one working directory: one downloader run   *)
(* (through main and get_all_links, or called directly with any list),     *)
(* possibly repeated once with the same list, and any number of retry      *)
(* runs.  The working directory a run starts in is arbitrary.  One loop    *)
(* iteration is one step; the status file is written in the step of the    *)
(* last iteration.  The status file is modelled as one path: the path      *)
(* create_status_file derives is the path later given to --retry.          *)
(* log, rerun, first, srcClean and fileClean are history variables.        *)
(***************************************************************************)
EXTENDS Integers, Sequences, FiniteSets, TLC

\* ------------------------------------------------------------------ bounds
MaxUrls == 2      \* longest URL list handed to downloader directly
MaxRows == 2      \* longest row list in a CDX response
MaxTok  == 4      \* tokens in a string given to construct_file_name alone

\* ----------------------------------------------------------------- strings
Range(s) == {s[k] : k \in 1..Len(s)}

\* Python s[a:b] for 0 <= a, 0 <= b (an empty slice when a >= b)
Slice(s, a, b) ==
  LET hi == IF b > Len(s) THEN Len(s) ELSE b
  IN  IF a >= hi THEN <<>> ELSE SubSeq(s, a + 1, hi)

\* Python s[a:]
SliceFrom(s, a) == Slice(s, a, Len(s))

\* does sub occur in s at 0-based offset k
OccursAt(s, sub, k) ==
  /\ k + Len(sub) <= Len(s)
  /\ \A j \in 1..Len(sub) : s[k + j] = sub[j]

\* str.index: 0-based offset of the first occurrence, -1 for ValueError
Index(s, sub) ==
  LET hits == {k \in 0..Len(s) : OccursAt(s, sub, k)}
  IN  IF hits = {} THEN -1
      ELSE CHOOSE k \in hits : \A m \in hits : k <= m

WebMarker == <<"/", "w", "e", "b", "/">>
IfMarker  == <<"i", "f", "_", "/">>

\* the characters kept by re.sub(r'[^a-zA-Z0-9_.-]', '_', ...)
AllowedChars ==
  {"a","b","c","d","e","f","g","h","i","j","k","l","m",
   "n","o","p","q","r","s","t","u","v","w","x","y","z",
   "A","B","C","D","E","F","G","H","I","J","K","L","M",
   "N","O","P","Q","R","S","T","U","V","W","X","Y","Z",
   "0","1","2","3","4","5","6","7","8","9","_",".","-"}

sanitize(s) == [k \in 1..Len(s) |-> IF s[k] \in AllowedChars THEN s[k] ELSE "_"]

\* s.split('?', 1)[0]
BeforeQuery(s) ==
  LET q == Index(s, <<"?">>)
  IN  IF q = -1 THEN s ELSE Slice(s, 0, q)

\* os.path.basename: what follows the last "/"
basename(s) ==
  LET slashes == {k \in 1..Len(s) : s[k] = "/"}
  IN  IF slashes = {} THEN s
      ELSE SliceFrom(s, CHOOSE k \in slashes : \A m \in slashes : m <= k)

None == <<"<None>">>

construct_file_name(url) ==
  LET w == Index(url, WebMarker)
      e == Index(url, IfMarker)
  IN  IF w = -1 \/ e = -1 THEN None
      ELSE LET start     == w + 5
               timestamp == Slice(url, start, e)
               path      == BeforeQuery(SliceFrom(url, e + 4))
           IN  timestamp \o <<"_">> \o sanitize(basename(path))

\* Python truthiness of the value returned by construct_file_name
Truthy(x) == x # None /\ x # <<>>

\* --------------------------------------------------------- archive lookup
Prefix == <<"h", "t", "t", "p", "s", ":", "/", "/", "w", "e", "b", ".", "a", "r", "c", "h", "i", "v", "e", ".", "o", "r", "g", "/", "w", "e", "b", "/">>

\* f"https://web.archive.org/web/{i[0]}if_/{i[1]}"
SnapUrl(row) == Prefix \o row[1] \o IfMarker \o row[2]

Header   == <<<<"t", "i", "m", "e", "s", "t", "a", "m", "p">>, <<"o", "r", "i", "g", "i", "n", "a", "l">>>>
ShortRow == << <<"1">> >>
RowA     == << <<"1">>, <<"a">> >>
RowB     == << <<"1">>, <<"x", "/", "a">> >>
RowC     == << <<"2">>, <<"b">> >>
Rows     == {Header, ShortRow, RowA}

SeqsUpTo(S, n) == UNION {[1..k -> S] : k \in 0..n}

\* what the CDX request can come back with
Responses ==
  {[kind |-> "error", rows |-> <<>>], [kind |-> "notjson", rows |-> <<>>]}
    \cup {[kind |-> "json", rows |-> r] : r \in SeqsUpTo(Rows, MaxRows)}

MapSnapUrl(rows) == [k \in 1..Len(rows) |-> SnapUrl(rows[k])]

KeepDownloader(r) == Len(r) > 1 /\ r # Header
KeepGather(r)     == Len(r) > 1

\* the list comprehension of wayback_downloader.py
url_list_downloader(obj) == MapSnapUrl(SelectSeq(obj, KeepDownloader))

\* the header pop and list comprehension of wayback_gather.py
url_list_gather(obj) ==
  LET rest == IF obj # <<>> /\ obj[1] = Header THEN Tail(obj) ELSE obj
  IN  MapSnapUrl(SelectSeq(rest, KeepGather))

Variants == {"downloader", "gather"}

url_list(variant, obj) ==
  IF variant = "gather" THEN url_list_gather(obj) ELSE url_list_downloader(obj)

\* TRUE when get_all_links calls exit(1)
get_all_links_fatal(variant, resp) ==
  resp.kind # "json" \/ url_list(variant, resp.rows) = <<>>

\* ------------------------------------------------------ the URL universe
UrlA   == SnapUrl(RowA)
UrlB   == SnapUrl(RowB)
UrlC   == SnapUrl(RowC)
UrlBad == <<"x">>
Urls   == {UrlA, UrlB, UrlC, UrlBad}
UrlHdr == SnapUrl(Header)
AllUrls == Urls \cup {UrlHdr}

\* messages of requests.exceptions.RequestException
Msgs == {"e1", "e2"}

\* ------------------------------------------------------- status document
EmptyStatus == [downloaded |-> <<>>, skipped |-> <<>>, errors |-> <<>>]

\* status_data.get("errors", [])
DocErrors(doc) == IF "errors" \in DOMAIN doc THEN doc.errors ELSE <<>>

\* the skip is not recorded
AppendSkipped_Dropped(st, fn) == st

AppendDownloaded(st, fn) == [st EXCEPT !.downloaded = Append(@, fn)]
AppendSkipped(st, fn)    == [st EXCEPT !.skipped = Append(@, fn)]
AppendError(st, url, e)  == [st EXCEPT !.errors = Append(@, [url |-> url, error |-> e])]


\* the retried entry is left in errors
RemoveErrors_Kept(st, url) == st

\* status_data["errors"] = [e for e in status_data["errors"] if e["url"] != url]
RemoveErrors(st, url) ==
  [st EXCEPT !.errors = SelectSeq(@, LAMBDA en : en.url # url)]

\* the message is written into every entry, whatever its url
UpdateErrors_All(st, url, e) ==
  [st EXCEPT !.errors = [k \in 1..Len(@) |-> [@[k] EXCEPT !.error = e]]]

\* for error_entry in status_data["errors"]: if error_entry["url"] == url: ...
UpdateErrors(st, url, e) ==
  [st EXCEPT !.errors =
     [k \in 1..Len(@) |-> IF @[k].url = url THEN [@[k] EXCEPT !.error = e] ELSE @[k]]]

\* [item["url"] for item in status_data.get("errors", [])]
failed_urls(doc) == [k \in 1..Len(DocErrors(doc)) |-> DocErrors(doc)[k].url]

\* json.dump(status, status_file, indent=4)
create_status_file(st) == [kind |-> "json", doc |-> st]

NoFile      == [kind |-> "none"]
CorruptFile == [kind |-> "corrupt"]
\* a parseable status file without an "errors" key
BareDoc     == [downloaded |-> <<>>, skipped |-> <<>>]

\* ------------------------------------------------------ working directory
\* the existence test never succeeds
exists_Never(dir, fn) == FALSE

\* os.path.exists(file_path)
exists(dir, fn) == fn \in dir

\* with open(file_path, 'wb') as file: file.write(response.content)
WriteFile(dir, fn) == dir \cup {fn}

InitialDirs == SUBSET {construct_file_name(UrlA), construct_file_name(UrlC)}

\* ------------------------------------------------------------------ state
VARIABLES
  files,       \* names of the files in the working directory
  statusFile,  \* the status file on disk
  status,      \* the in-memory status document of the current run
  urls,        \* the list the current loop iterates over
  i,           \* number of list entries already processed
  pc,          \* "idle", "loop", "done", "fatal" (exit(1)) or "crashed" (uncaught exception)
  mode,        \* "none", "download" or "retry"
  entry,       \* "none", "main" (through get_all_links) or "call" (downloader called directly)
  exitCode,    \* -1 while running, else the process exit status
  log,         \* outcome of each iteration of the current run
  rerun,       \* the current downloader run repeats the run completed just before it
  first,       \* result of that earlier run
  srcClean,    \* the in-memory document stems from a downloader run over a list
               \* of pairwise distinct URLs with pairwise distinct file names
  fileClean    \* the same for the document on disk

vars == <<files, statusFile, status, urls, i, pc, mode, entry, exitCode, log,
          rerun, first, srcClean, fileClean>>

\* no two entries of the list are the same URL or derive the same file name
Clean(us) ==
  \A j, k \in 1..Len(us) :
    j # k => /\ us[j] # us[k]
             /\ construct_file_name(us[j]) = None
                  \/ construct_file_name(us[j]) # construct_file_name(us[k])

NoFirst == [status |-> EmptyStatus, files |-> {}]

Init ==
  /\ files \in InitialDirs
  /\ statusFile \in {NoFile, CorruptFile, create_status_file(BareDoc)}
  /\ status = EmptyStatus
  /\ urls = <<>>
  /\ i = 0
  /\ pc = "idle"
  /\ mode = "none"
  /\ entry = "none"
  /\ exitCode = -1
  /\ log = <<>>
  /\ rerun = FALSE
  /\ first = NoFirst
  /\ srcClean = TRUE
  /\ fileClean = TRUE

Res(r, e) == [res |-> r, err |-> e]

\* the iterations of the current run that issued a snapshot GET
IsGet(r) == r.res \in {"ok", "fail", "oserror"}
Gets(l)  == Len(SelectSeq(l, IsGet))

\* ------------------------------------------------------------- downloader
\* downloader(urls, debug, base_url) up to its first loop iteration; with an
\* empty list it goes straight to create_status_file
downloader_begin(us, again) ==
  /\ mode' = "download"
  /\ urls' = us
  /\ i' = 0
  /\ log' = <<>>
  /\ status' = EmptyStatus
  /\ rerun' = again
  /\ first' = IF again THEN [status |-> status, files |-> files] ELSE NoFirst
  /\ files' = files
  /\ srcClean' = Clean(us)
  /\ IF us = <<>>
       THEN /\ pc' = "done"
            /\ exitCode' = 0
            /\ statusFile' = create_status_file(EmptyStatus)
            /\ fileClean' = TRUE
       ELSE /\ pc' = "loop"
            /\ exitCode' = -1
            /\ UNCHANGED <<statusFile, fileClean>>

\* main(): get_all_links exits the process
MainUrlFatal ==
  \E v \in Variants, resp \in Responses :
    /\ pc = "idle"
    /\ get_all_links_fatal(v, resp)
    /\ pc' = "fatal"
    /\ exitCode' = 1
    /\ mode' = "download"
    /\ entry' = "main"
    /\ UNCHANGED <<files, statusFile, status, urls, i, log, rerun, first,
                   srcClean, fileClean>>

\* main(): get_all_links returns and downloader starts
MainUrl ==
  \E v \in Variants, resp \in Responses :
    /\ pc = "idle"
    /\ ~get_all_links_fatal(v, resp)
    /\ entry' = "main"
    /\ downloader_begin(url_list(v, resp.rows), FALSE)

\* downloader called with an arbitrary list
CallDownloader ==
  \E us \in SeqsUpTo(Urls, MaxUrls) :
    /\ pc = "idle"
    /\ entry' = "call"
    /\ downloader_begin(us, FALSE)

\* the same run once more, right after it completed
RepeatDownloader ==
  /\ pc = "done"
  /\ mode = "download"
  /\ ~rerun
  /\ entry' = entry
  /\ downloader_begin(urls, TRUE)

InLoop(m) == pc = "loop" /\ mode = m /\ i < Len(urls)

\* the end of one iteration of the for loop of downloader, and
\* create_status_file after the last one
DownloadIterEnd(st, res) ==
  /\ i' = i + 1
  /\ status' = st
  /\ log' = Append(log, res)
  /\ IF i + 1 = Len(urls)
       THEN /\ pc' = "done"
            /\ exitCode' = 0
            /\ statusFile' = create_status_file(st)
            /\ fileClean' = srcClean
       ELSE UNCHANGED <<pc, exitCode, statusFile, fileClean>>
  /\ UNCHANGED <<urls, mode, entry, rerun, first, srcClean>>

\* an uncaught exception ends the process
Crash(res) ==
  /\ pc' = "crashed"
  /\ exitCode' = 1
  /\ log' = Append(log, res)
  /\ UNCHANGED <<i, status, statusFile, urls, mode, entry, rerun, first,
                 srcClean, fileClean>>

DownloadInvalid ==
  /\ InLoop("download")
  /\ ~Truthy(construct_file_name(urls[i + 1]))
  /\ DownloadIterEnd(AppendError(status, urls[i + 1], "Invalid file name"),
                     Res("invalid", ""))
  /\ files' = files

DownloadSkip ==
  LET fn == construct_file_name(urls[i + 1])
  IN  /\ InLoop("download")
      /\ Truthy(fn)
      /\ exists(files, fn)
      /\ DownloadIterEnd(AppendSkipped(status, fn), Res("exists", ""))
      /\ files' = files

\* requests.get or raise_for_status raises a RequestException
DownloadFail ==
  LET fn == construct_file_name(urls[i + 1])
  IN  /\ InLoop("download")
      /\ Truthy(fn)
      /\ ~exists(files, fn)
      /\ \E e \in Msgs :
           DownloadIterEnd(AppendError(status, urls[i + 1], e), Res("fail", e))
      /\ files' = files

DownloadOk ==
  LET fn == construct_file_name(urls[i + 1])
  IN  /\ InLoop("download")
      /\ Truthy(fn)
      /\ ~exists(files, fn)
      /\ files' = WriteFile(files, fn)
      /\ DownloadIterEnd(AppendDownloaded(status, fn), Res("ok", ""))

\* the GET succeeds and open() or write() raises OSError, which the except
\* clause for RequestException does not catch; open() may have created the file
DownloadWriteError ==
  LET fn == construct_file_name(urls[i + 1])
  IN  /\ InLoop("download")
      /\ Truthy(fn)
      /\ ~exists(files, fn)
      /\ \E created \in BOOLEAN :
           files' = IF created THEN WriteFile(files, fn) ELSE files
      /\ Crash(Res("oserror", ""))

\* ------------------------------------------------------------------ retry
RetryCommon ==
  /\ pc # "loop"
  /\ mode' = "retry"
  /\ entry' = "main"
  /\ i' = 0
  /\ log' = <<>>
  /\ rerun' = FALSE
  /\ first' = NoFirst
  /\ UNCHANGED <<files, statusFile, fileClean>>

\* retry_failed_downloads: status file missing or not parseable
MainRetryFatal ==
  /\ RetryCommon
  /\ statusFile.kind # "json"
  /\ pc' = "fatal"
  /\ exitCode' = 1
  /\ urls' = <<>>
  /\ status' = EmptyStatus
  /\ srcClean' = TRUE

\* an empty failed_urls treated like an empty url_list: exit(1)
MainRetryNoOp_Fatal ==
  /\ RetryCommon
  /\ statusFile.kind = "json"
  /\ failed_urls(statusFile.doc) = <<>>
  /\ pc' = "fatal"
  /\ exitCode' = 1
  /\ urls' = <<>>
  /\ status' = statusFile.doc
  /\ srcClean' = fileClean

\* failed_urls is empty: retry_failed_downloads returns
MainRetryNoOp ==
  /\ RetryCommon
  /\ statusFile.kind = "json"
  /\ failed_urls(statusFile.doc) = <<>>
  /\ pc' = "done"
  /\ exitCode' = 0
  /\ urls' = <<>>
  /\ status' = statusFile.doc
  /\ srcClean' = fileClean

MainRetry ==
  /\ RetryCommon
  /\ statusFile.kind = "json"
  /\ failed_urls(statusFile.doc) # <<>>
  /\ pc' = "loop"
  /\ exitCode' = -1
  /\ urls' = failed_urls(statusFile.doc)
  /\ status' = statusFile.doc
  /\ srcClean' = fileClean

\* the end of one iteration of the retry loop, and the json.dump to
\* status_file after the last one
RetryIterEnd(st, res) ==
  /\ i' = i + 1
  /\ status' = st
  /\ log' = Append(log, res)
  /\ IF i + 1 = Len(urls)
       THEN /\ pc' = "done"
            /\ exitCode' = 0
            /\ statusFile' = create_status_file(st)
            /\ fileClean' = srcClean
       ELSE UNCHANGED <<pc, exitCode, statusFile, fileClean>>
  /\ UNCHANGED <<urls, mode, entry, rerun, first, srcClean>>

\* construct_file_name returned None: the loop body does nothing
RetryInvalid ==
  /\ InLoop("retry")
  /\ ~Truthy(construct_file_name(urls[i + 1]))
  /\ RetryIterEnd(status, Res("invalid", ""))
  /\ files' = files

\* the existing file is recorded in skipped, as downloader does
RetrySkip_Records ==
  LET fn == construct_file_name(urls[i + 1])
  IN  /\ InLoop("retry")
      /\ Truthy(fn)
      /\ exists(files, fn)
      /\ RetryIterEnd(AppendSkipped(status, fn), Res("exists", ""))
      /\ files' = files

RetrySkip ==
  LET fn == construct_file_name(urls[i + 1])
  IN  /\ InLoop("retry")
      /\ Truthy(fn)
      /\ exists(files, fn)
      /\ RetryIterEnd(status, Res("exists", ""))
      /\ files' = files

RetryFail ==
  LET fn == construct_file_name(urls[i + 1])
  IN  /\ InLoop("retry")
      /\ Truthy(fn)
      /\ ~exists(files, fn)
      /\ \E e \in Msgs :
           RetryIterEnd(UpdateErrors(status, urls[i + 1], e), Res("fail", e))
      /\ files' = files

RetryOk ==
  LET fn == construct_file_name(urls[i + 1])
  IN  /\ InLoop("retry")
      /\ Truthy(fn)
      /\ ~exists(files, fn)
      /\ files' = WriteFile(files, fn)
      /\ RetryIterEnd(RemoveErrors(AppendDownloaded(status, fn), urls[i + 1]),
                      Res("ok", ""))

RetryWriteError ==
  LET fn == construct_file_name(urls[i + 1])
  IN  /\ InLoop("retry")
      /\ Truthy(fn)
      /\ ~exists(files, fn)
      /\ \E created \in BOOLEAN :
           files' = IF created THEN WriteFile(files, fn) ELSE files
      /\ Crash(Res("oserror", ""))

Next ==
  \/ MainUrlFatal
  \/ MainUrl
  \/ CallDownloader
  \/ RepeatDownloader
  \/ DownloadInvalid
  \/ DownloadSkip
  \/ DownloadFail
  \/ DownloadOk
  \/ DownloadWriteError
  \/ MainRetryFatal
  \/ MainRetryNoOp
  \/ MainRetry
  \/ RetryInvalid
  \/ RetrySkip
  \/ RetryFail
  \/ RetryOk
  \/ RetryWriteError

Spec == Init /\ [][Next]_vars

\* ------------------------------------- construct_file_name on its own
NameTokens == {WebMarker, IfMarker, <<"/">>, <<"?">>, <<"a">>, <<" ">>}

RECURSIVE Concat(_)
Concat(ts) == IF ts = <<>> THEN <<>> ELSE Head(ts) \o Concat(Tail(ts))

NameInputs == {Concat(t) : t \in SeqsUpTo(NameTokens, MaxTok)}

\* downloader is in its loop over a one-element list; the file it would
\* write may be there already
InitName ==
  \E u \in NameInputs, pre \in BOOLEAN :
    /\ urls = <<u>>
    /\ files = IF pre /\ construct_file_name(u) # None
                 THEN {construct_file_name(u)} ELSE {}
    /\ statusFile = NoFile
    /\ status = EmptyStatus
    /\ i = 0
    /\ pc = "loop"
    /\ mode = "download"
    /\ entry = "call"
    /\ exitCode = -1
    /\ log = <<>>
    /\ rerun = FALSE
    /\ first = NoFirst
    /\ srcClean = TRUE
    /\ fileClean = TRUE

NextName ==
  \/ DownloadInvalid
  \/ DownloadSkip
  \/ DownloadFail
  \/ DownloadOk
  \/ DownloadWriteError

SpecName == InitName /\ [][NextName]_vars

\* ================================================================ claims
TypeOK ==
  /\ pc \in {"idle", "loop", "done", "fatal", "crashed"}
  /\ mode \in {"none", "download", "retry"}
  /\ i \in 0..Len(urls)
  /\ exitCode \in {-1, 0, 1}

InErrors(doc, u)     == \E k \in 1..Len(DocErrors(doc)) : DocErrors(doc)[k].url = u
InDownloaded(doc, u) ==
  Truthy(construct_file_name(u)) /\ construct_file_name(u) \in Range(doc.downloaded)
InSkipped(doc, u)    ==
  Truthy(construct_file_name(u)) /\ construct_file_name(u) \in Range(doc.skipped)

\* did some GET for URL u succeed, or fail, in the run logged in lg over the
\* list us, and what was the text of its last failure
Succeeded(lg, us, u) == \E k \in 1..Len(lg) : us[k] = u /\ lg[k].res = "ok"
FailedAgain(lg, us, u) == \E k \in 1..Len(lg) : us[k] = u /\ lg[k].res = "fail"
LastFailMsg(lg, us, u) ==
  LET ks == {k \in 1..Len(lg) : us[k] = u /\ lg[k].res = "fail"}
  IN  lg[CHOOSE k \in ks : \A m \in ks : m <= k].err

\* ---- C1
\* C1: in downloader the three lists together hold one entry per URL
\* processed so far, and one per input URL once the run has completed.
C1_StatusCount ==
  mode = "download" =>
    /\ Len(status.downloaded) + Len(status.skipped) + Len(status.errors) = i
    /\ pc = "done" => i = Len(urls)

\* a completed run over a duplicated URL: downloaded once, skipped once
C1_Witness ==
  /\ mode = "download"
  /\ pc = "done"
  /\ urls = <<UrlA, UrlA>>
  /\ Len(status.downloaded) = 1
  /\ Len(status.skipped) = 1

\* ---- C2
ListsHolding(doc, u) ==
  (IF InDownloaded(doc, u) THEN 1 ELSE 0) + (IF InSkipped(doc, u) THEN 1 ELSE 0)
    + (IF InErrors(doc, u) THEN 1 ELSE 0)

AtMostOneList(doc) == \A u \in AllUrls : ListsHolding(doc, u) <= 1

\* no URL has two entries in errors and no file name is recorded twice
NoDuplicateEntry(doc) ==
  /\ \A j, k \in 1..Len(DocErrors(doc)) :
       j # k => DocErrors(doc)[j].url # DocErrors(doc)[k].url
  /\ \A j, k \in 1..Len(doc.downloaded) : j # k => doc.downloaded[j] # doc.downloaded[k]

\* C2 as stated: in every reachable state of the status document, in memory
\* and on disk, every snapshot URL is in at most one of the three lists.
C2_Original ==
  /\ AtMostOneList(status)
  /\ statusFile.kind = "json" => AtMostOneList(statusFile.doc)

\* C2 amended: when the downloader run that produced the document was given
\* pairwise distinct URLs with pairwise distinct derived file names, every
\* snapshot URL is in at most one of the three lists and no entry is
\* duplicated, during and after that run and any retry runs that follow.
C2_OneListWhenClean ==
  /\ srcClean => AtMostOneList(status) /\ NoDuplicateEntry(status)
  /\ (fileClean /\ statusFile.kind = "json") =>
       AtMostOneList(statusFile.doc) /\ NoDuplicateEntry(statusFile.doc)

\* a retry run over two failed URLs moved one to downloaded and kept the other
C2_Witness ==
  /\ srcClean
  /\ mode = "retry"
  /\ pc = "done"
  /\ Len(log) = 2
  /\ \E k \in 1..2 : log[k].res = "ok"
  /\ \E k \in 1..2 : log[k].res = "fail"
  /\ Len(status.errors) = 1
  /\ Len(status.downloaded) = 1

\* ---- C3
FileNames(us) == [k \in 1..Len(us) |-> construct_file_name(us[k])]

RetryCompletes == pc = "loop" /\ mode = "retry" /\ pc' = "done"

OkIndexes(lg) == SelectSeq([k \in 1..Len(lg) |-> k], LAMBDA k : lg[k].res = "ok")

\* the file names of the successful iterations, in order
OkNames(lg, us) == [j \in 1..Len(OkIndexes(lg)) |-> construct_file_name(us[OkIndexes(lg)[j]])]

\* the loaded entries whose URL had no successful GET, in their order, each
\* with the latest failure text of its URL if a GET for it failed
RemainingErrors(doc, lg) ==
  LET es  == DocErrors(doc)
      us  == failed_urls(doc)
      upd == [k \in 1..Len(es) |->
                IF FailedAgain(lg, us, es[k].url)
                  THEN [url |-> es[k].url, error |-> LastFailMsg(lg, us, es[k].url)]
                  ELSE es[k]]
  IN  SelectSeq(upd, LAMBDA en : ~Succeeded(lg, us, en.url))

\* C4 as stated: an entry whose own GET succeeded is in downloaded and gone
\* from errors; an entry whose own GET failed again is still in errors, in
\* its place among the remaining entries, with the latest failure text.
C4_Original ==
  [][RetryCompletes =>
       /\ \A k \in 1..Len(urls) :
            /\ log'[k].res = "ok" =>
                 /\ construct_file_name(urls[k]) \in Range(status'.downloaded)
                 /\ ~InErrors(status', urls[k])
            /\ log'[k].res = "fail" =>
                 \E j \in 1..Len(status'.errors) :
                   /\ status'.errors[j].url = urls[k]
                   /\ status'.errors[j].error = LastFailMsg(log', urls, urls[k])
       /\ failed_urls(status') = SelectSeq(urls, LAMBDA u : InErrors(status', u))]_vars

\* C4 amended: when a retry run completes, the names of the files it fetched
\* have been appended to downloaded in order; an entry is gone from errors
\* exactly when some GET for its URL succeeded in the run (its own or that
\* of a duplicate entry); every other entry is still in errors in its place
\* among the remaining ones, its url unchanged and its error the latest
\* failure text of its URL if a GET for it failed; the result is saved.
C4_RetryResult ==
  [][RetryCompletes =>
       /\ status'.downloaded = statusFile.doc.downloaded \o OkNames(log', urls)
       /\ status'.skipped = statusFile.doc.skipped
       /\ status'.errors = RemainingErrors(statusFile.doc, log')
       /\ statusFile' = create_status_file(status')]_vars

\* a retry run over two entries: one fetched, one failed with a new message
C4_Witness ==
  /\ mode = "retry"
  /\ pc = "done"
  /\ urls = <<UrlA, UrlC>>
  /\ log = <<Res("fail", "e2"), Res("ok", "")>>
  /\ status.errors = <<[url |-> UrlA, error |-> "e2"]>>
  /\ status.downloaded = <<construct_file_name(UrlC)>>

\* ---- C5
\* the step that starts retry_failed_downloads on a status file without errors
RetryStartsEmpty ==
  /\ pc # "loop"
  /\ mode' = "retry"
  /\ statusFile.kind = "json"
  /\ DocErrors(statusFile.doc) = <<>>

\* C5: retry on a status file whose errors list is empty or absent issues no
\* GET, leaves the working directory and the status file as they were, and
\* ends normally with exit status 0.
C5_RetryNoOp ==
  [][RetryStartsEmpty =>
       /\ pc' = "done"
       /\ exitCode' = 0
       /\ Gets(log') = 0
       /\ files' = files
       /\ statusFile' = statusFile]_vars

\* retry has returned at once on a status file written by a download run
C5_Witness ==
  /\ mode = "retry"
  /\ pc = "done"
  /\ log = <<>>
  /\ statusFile.kind = "json"
  /\ statusFile.doc = status
  /\ DocErrors(status) = <<>>
  /\ status.downloaded # <<>>

\* ---- C6
\* C6 as stated: a downloader run never ends otherwise than after processing
\* every URL and writing the status file.
C6_Claim ==
  mode = "download" =>
    /\ pc \in {"loop", "done", "fatal"}
    /\ pc = "done" => (i = Len(urls) /\ statusFile = create_status_file(status))

\* ---- C7
\* C7 as stated: a failed lookup ends the process with status 1 before any
\* GET, file or status file; otherwise the list is not empty and the run
\* ends with status 0.
C7_Claim ==
  [][(entry' = "main" /\ mode' = "download") =>
       /\ (pc = "idle" /\ pc' = "fatal") =>
            /\ exitCode' = 1
            /\ log' = <<>>
            /\ files' = files
            /\ statusFile' = statusFile
       /\ pc' # "fatal" => urls' # <<>>
       /\ pc' \notin {"loop", "fatal"} => exitCode' = 0]_vars

\* ---- C8
\* "/web/" occurs and "if_/" occurs after it
MarkersInOrder(u) ==
  \E a, b \in 0..Len(u) :
    OccursAt(u, WebMarker, a) /\ OccursAt(u, IfMarker, b) /\ a + 5 <= b

\* C8 as stated: without both markers in order construct_file_name returns
\* None and downloader records "Invalid file name"; with them it returns a
\* file name.
C8_Claim ==
  LET u == urls[1]
  IN  /\ ~MarkersInOrder(u) =>
           /\ construct_file_name(u) = None
           /\ pc # "loop" =>
                (pc = "done" /\ status.errors = <<[url |-> u, error |-> "Invalid file name"]>>)
      /\ MarkersInOrder(u) => construct_file_name(u) # None

\* ---- C9
\* timestamp + "_" + sanitized basename, the timestamp being what lies
\* between the first "/web/" and the first "if_/" after it
ClaimedName(u) ==
  LET w  == Index(u, WebMarker)
      bs == {b \in 0..Len(u) : OccursAt(u, IfMarker, b) /\ w + 5 <= b}
      e  == CHOOSE b \in bs : \A m \in bs : b <= m
  IN  Slice(u, w + 5, e) \o <<"_">>
        \o sanitize(basename(BeforeQuery(SliceFrom(u, e + 4))))

\* C9 as stated: with both markers in order construct_file_name returns
\* timestamp_basename and no character of it lies outside [a-zA-Z0-9_.-].
C9_Claim ==
  LET u == urls[1]
  IN  MarkersInOrder(u) =>
        /\ construct_file_name(u) = ClaimedName(u)
        /\ Range(construct_file_name(u)) \subseteq AllowedChars

\* ---- C10
\* the errors entries whose derived file is in the working directory
HasFile(en) ==
  Truthy(construct_file_name(en.url)) /\ exists(files, construct_file_name(en.url))

\* C10: a retry iteration on an entry whose file exists issues no GET and
\* changes neither the working directory nor the document; no retry step
\* changes skipped, in memory or on disk; and no retry iteration removes
\* or alters an entry whose file exists or adds its name to downloaded.
C10_RetrySkipsExisting ==
  [][(mode' = "retry" /\ statusFile.kind = "json") =>
       /\ (InLoop("retry") /\ HasFile([url |-> urls[i + 1]])) =>
            /\ status' = status
            /\ files' = files
            /\ Gets(log') = Gets(log)
       /\ InLoop("retry") =>
            /\ status'.skipped = status.skipped
            /\ \A k \in 1..Len(DocErrors(status)) :
                 HasFile(status.errors[k]) =>
                   /\ \E j \in 1..Len(status'.errors) : status'.errors[j] = status.errors[k]
                   /\ Len(SelectSeq(status'.downloaded,
                                    LAMBDA n : n = construct_file_name(status.errors[k].url)))
                        = Len(SelectSeq(status.downloaded,
                                    LAMBDA n : n = construct_file_name(status.errors[k].url)))
       /\ statusFile' \in {statusFile, create_status_file(status')}
       /\ statusFile'.doc.skipped = statusFile.doc.skipped]_vars

\* a retry run has passed over an entry whose file exists and saved it
C10_Witness ==
  /\ mode = "retry"
  /\ pc = "done"
  /\ log # <<>>
  /\ log[Len(log)].res = "exists"
  /\ InErrors(status, urls[Len(urls)])
  /\ statusFile = create_status_file(status)
====
